---- MODULE Spec2Model ----
(***************************************************************************)
(* Model of reana-ui/src/components/WorkflowDeleteModal.js:                *)
(*   getWorkspaceGroup   - pure name -> workspace-group key                *)
(*   useWorkflowRuns     - the related-runs tracker (effect + async fetch) *)
(*   WorkflowDeleteModal - the deletion orchestrator (onDelete & toggles)  *)
(*                                                                         *)
(* Strings are sequences of one-character strings.  The JavaScript values  *)
(* null, undefined and "" are all falsy and the code never tells them      *)
(* apart, so all three are the empty sequence here; an absent identifier   *)
(* (null, undefined, 0) is the number 0.                                   *)
(*                                                                         *)
(* A store change, the render it causes and the effects of that render are *)
(* one step (React flushes the effects of a discrete event before the next *)
(* event is handled); so is the settling of a promise together with the    *)
(* continuation of the async function that awaits it (a microtask).        *)
(***************************************************************************)
EXTENDS Integers, Sequences, FiniteSets, TLC

VARIABLES
  open,                    \* useSelector(getWorkflowDeleteModalOpen)
  workflow,                \* useSelector(getWorkflowDeleteModalItem)
  state,                   \* the state of useWorkflowRuns
  fetches,                 \* the getWorkflows calls in flight
  cancelled,               \* the fetches whose closure has cancelled = true
  latest,                  \* the fetch of the last run of the effect, 0 for none
  issued,                  \* the number of getWorkflows calls made so far
  stale,                   \* the last response to arrive was a superseded one
  allRuns,                 \* useState(false)
  confirmRelatedDeletion,  \* useState(false)
  invs,                    \* the calls of onDelete
  resp,                    \* the response handed to the .then handler (ThenSpec)
  qualifiedName,           \* the name handed to getWorkspaceGroup (ResolverSpec)
  resolved                 \* the calls of getWorkspaceGroup made, with their results

store == <<open, workflow>>

tracker == <<state, fetches, cancelled, latest, issued, stale>>

choices == <<allRuns, confirmRelatedDeletion>>

resolver == <<qualifiedName, resolved>>

vars == <<store, tracker, choices, invs, resp, resolver>>

(* ---------------------------- bounds ----------------------------------- *)
\* queries issued in one run of the model
MaxFetches == 2
\* activations of the delete action in one run of the model
MaxClicks == 2
\* largest "total" a response reports
MaxTotal == 2
\* longest response (number of items)
MaxItems == 3
\* longest name handed to getWorkspaceGroup at the start
MaxLen == 5

(* ---------------------------- strings ---------------------------------- *)
Digits == {"0", "1", "2", "3"}

Dot == "."

\* total: null
NullTotal == -1

RECURSIVE IndexOfDot(_, _)
\* position of the first "." of s at or after position i, 0 when there is none
IndexOfDot(s, i) ==
  IF i > Len(s) THEN 0
  ELSE IF s[i] = Dot THEN i
  ELSE IndexOfDot(s, i + 1)

RECURSIVE Split(_)
\* String(fullName).split(".")
Split(s) ==
  LET k == IndexOfDot(s, 1)
  IN  IF k = 0 THEN <<s>>
      ELSE <<SubSeq(s, 1, k - 1)>> \o Split(SubSeq(s, k + 1, Len(s)))

RECURSIVE Join(_)
\* parts.join(".")
Join(parts) ==
  IF Len(parts) = 0 THEN <<>>
  ELSE IF Len(parts) = 1 THEN parts[1]
  ELSE parts[1] \o <<Dot>> \o Join(Tail(parts))

\* /^\d+$/.test(part)
IsNumeric(part) ==
  /\ Len(part) > 0
  /\ \A k \in 1..Len(part) : part[k] \in Digits

RECURSIVE ScanBack(_, _)
\* while (i >= 0 && /^\d+$/.test(parts[i])) i--;   (i is 1-based here, 0 = before the first)
ScanBack(parts, i) ==
  IF i >= 1 /\ IsNumeric(parts[i]) THEN ScanBack(parts, i - 1) ELSE i

\* getWorkspaceGroup without the test "!base"
getWorkspaceGroupAnyBase(fullName) ==
  IF fullName = <<>> THEN <<>>
  ELSE LET parts   == Split(fullName)
           i       == ScanBack(parts, Len(parts))
           numeric == SubSeq(parts, i + 1, Len(parts))
           base    == Join(SubSeq(parts, 1, i))
       IN  IF Len(numeric) = 0 THEN <<>>
           ELSE base \o <<Dot>> \o numeric[1]

\* getWorkspaceGroup returning the last numeric component, not the first
getWorkspaceGroupLast(fullName) ==
  IF fullName = <<>> THEN <<>>
  ELSE LET parts   == Split(fullName)
           i       == ScanBack(parts, Len(parts))
           numeric == SubSeq(parts, i + 1, Len(parts))
           base    == Join(SubSeq(parts, 1, i))
       IN  IF base = <<>> \/ Len(numeric) = 0 THEN <<>>
           ELSE base \o <<Dot>> \o numeric[Len(numeric)]

\* getWorkspaceGroup(fullName); the empty sequence is null
getWorkspaceGroup(fullName) ==
  IF fullName = <<>> THEN <<>>
  ELSE LET parts   == Split(fullName)
           i       == ScanBack(parts, Len(parts))
           numeric == SubSeq(parts, i + 1, Len(parts))
           base    == Join(SubSeq(parts, 1, i))
       IN  IF base = <<>> \/ Len(numeric) = 0 THEN <<>>
           ELSE base \o <<Dot>> \o numeric[1]

(* ------------------- the store and the workflow service ---------------- *)
\* "w" and "v": the workflow names
W == <<"w">>

V == <<"v">>

\* Str("1.1") as a sequence of characters
R1 == <<"1">>

R11 == <<"1", Dot, "1">>

R12 == <<"1", Dot, "2">>

R13 == <<"1", Dot, "3">>

R2 == <<"2">>

\* useSelector(getWorkflowDeleteModalItem) when the store holds no item:
\* "const { id, name, run, size } = workflow ?? {}" makes every field undefined
NoWorkflow == [present |-> FALSE, id |-> 0, name |-> <<>>, run |-> <<>>]

\* the items the store can hold: w#1.1 (a restart of w#1), the independent run
\* w#2, and an item that carries neither a run nor an id
Workflows ==
  { [present |-> TRUE, id |-> 2, name |-> W, run |-> R11],
    [present |-> TRUE, id |-> 4, name |-> W, run |-> R2],
    [present |-> TRUE, id |-> 0, name |-> V, run |-> <<>>] }

\* the runs the workflow service knows (resp.data.items are drawn from these);
\* wf is the workflowIdOrName the run is listed under; one item has no id
Runs ==
  { [id |-> 1, name |-> W \o <<Dot>> \o R1,  wf |-> W],
    [id |-> 2, name |-> W \o <<Dot>> \o R11, wf |-> W],
    [id |-> 3, name |-> W \o <<Dot>> \o R12, wf |-> W],
    [id |-> 4, name |-> W \o <<Dot>> \o R2,  wf |-> W],
    [id |-> 0, name |-> W \o <<Dot>> \o R13, wf |-> W],
    [id |-> 5, name |-> V \o <<Dot>> \o R1,  wf |-> V] }

\* the order in which the service lists its runs
Listing == <<4, 0, 3, 2, 1, 5>>

RunOf(i) == CHOOSE r \in Runs : r.id = i

RECURSIVE Pick(_, _)
\* the runs of the listing, from position k on, that are in the set keep
Pick(keep, k) ==
  IF k > Len(Listing) THEN <<>>
  ELSE (IF Listing[k] \in keep THEN <<RunOf(Listing[k])>> ELSE <<>>)
       \o Pick(keep, k + 1)

\* resp.data.items of client.getWorkflows({workflowIdOrName: name, ...}): the
\* runs listed under name that are not deleted, at most MaxItems of them, in
\* the order of the listing
Responses(name) ==
  LET pool == {r.id : r \in {x \in Runs : x.wf = name}}
  IN  {Pick(keep, 1) : keep \in {k \in SUBSET pool : Cardinality(k) <= MaxItems}}

(* ---------------------------- useWorkflowRuns -------------------------- *)
\* setState({ total: null, relatedIds: [], loading: false })
ResetState == [total |-> NullTotal, relatedIds |-> <<>>, loading |-> FALSE]

\* const selectedFullName = run ? `${name}.${run}` : name;
selectedFullName(name, run) ==
  IF run # <<>> THEN name \o <<Dot>> \o run ELSE name

RECURSIVE MapIds(_)
\* .map((w) => w.id)
MapIds(items) ==
  IF items = <<>> THEN <<>> ELSE <<Head(items).id>> \o MapIds(Tail(items))

IsTruthyId(i) == i # 0

\* RelatedIds without the comparison of the workspace groups
RelatedIdsAnyGroup(items, selectedGroup) ==
  IF selectedGroup # <<>> THEN SelectSeq(MapIds(items), IsTruthyId) ELSE <<>>

\* the relatedIds computed in the .then handler
RelatedIds(items, selectedGroup) ==
  IF selectedGroup # <<>>
  THEN LET sameGroup(w) == getWorkspaceGroup(w.name) = selectedGroup
       IN  SelectSeq(MapIds(SelectSeq(items, sameGroup)), IsTruthyId)
  ELSE <<>>

\* .then((resp) => { if (cancelled) return; ... setState({...}) })
OnResponse(f, items, total) ==
  IF f.fid \in cancelled THEN state
  ELSE [total |-> total,
        relatedIds |-> RelatedIds(items, f.selectedGroup),
        loading |-> FALSE]

\* .catch((err) => { if (cancelled) return; ...; setState({reset}) })
OnError(f) ==
  IF f.fid \in cancelled THEN state ELSE ResetState

\* the fetch ids in flight
InFlight == {f.fid : f \in fetches}

\* Cleanup without "cancelled = true": the effect returns no cleanup
CleanupMissing == cancelled

\* the cleanup of the previous run of the effect: cancelled = true
Cleanup == cancelled \cup ({latest} \cap InFlight)

\* setState((s) => ({ ...s, loading: true }))
SetLoading(s) == [s EXCEPT !.loading = TRUE]

\* TrackerEffect without "if (!open || !name) { setState(reset); return; }"
TrackerEffectNoGuard(o2, w2) ==
  /\ cancelled' = Cleanup
  /\ issued < MaxFetches
  /\ LET fid == issued + 1
     IN  /\ state' = SetLoading(state)
         /\ issued' = fid
         /\ fetches' = fetches \cup
              {[fid |-> fid, name |-> w2.name,
                selectedGroup |->
                  getWorkspaceGroup(selectedFullName(w2.name, w2.run))]}
         /\ latest' = fid

\* the effect of useWorkflowRuns, run because one of [open, name, run] changed
TrackerEffect(o2, w2) ==
  /\ cancelled' = Cleanup
  /\ IF ~o2 \/ w2.name = <<>>
     THEN /\ state' = ResetState
          /\ fetches' = fetches
          /\ latest' = 0
          /\ issued' = issued
     ELSE /\ issued < MaxFetches
          /\ LET fid == issued + 1
             IN  /\ state' = SetLoading(state)
                 /\ issued' = fid
                 /\ fetches' = fetches \cup
                      {[fid |-> fid, name |-> w2.name,
                        selectedGroup |->
                          getWorkspaceGroup(selectedFullName(w2.name, w2.run))]}
                 /\ latest' = fid

(* ------------------------- WorkflowDeleteModal ------------------------- *)
\* const hasRelatedRuns = relatedRunIds.length > 1;
hasRelatedRuns == Len(state.relatedIds) > 1

\* const showAllRunsCheckbox = Boolean(allRunsTotal && allRunsTotal > 1);
showAllRunsCheckbox == state.total # NullTotal /\ state.total # 0 /\ state.total > 1

\* "if (!workflow) return null" and <Modal open={open}>: the dialog is on screen
Visible == open /\ workflow.present

\* const relatedCount = relatedRunIds?.length;
relatedCount(relatedRunIds) == Len(relatedRunIds)

\* const baseRun = String(run ?? "").split(".")[0];
baseRun(run) == Split(run)[1]

\* const runLabel = baseRun ? `${name}#${baseRun}` : name;
runLabel(name, run) ==
  IF baseRun(run) # <<>> THEN name \o <<"#">> \o baseRun(run) ELSE name

\* the text of the delete button, as the parts the template strings put
\* together: Delete [<count or "all"> <runs of | runs in restart chain of> |
\* workflow] "<subject>"; all says that the word "all" stands for the count
Label(name, run, all, allRunsTotal, has, confirm, count) ==
  IF name = <<>>
    THEN [form |-> "Delete", all |-> FALSE, count |-> 0, subject |-> <<>>]
  ELSE IF all
    THEN [form |-> "Delete N runs of", all |-> allRunsTotal = NullTotal,
          count |-> IF allRunsTotal = NullTotal THEN 0 ELSE allRunsTotal,
          subject |-> name]
  ELSE IF has /\ confirm
    THEN [form |-> "Delete N runs in restart chain of", all |-> count = 0,
          count |-> count, subject |-> runLabel(name, run)]
  ELSE IF run # <<>>
    THEN [form |-> "Delete workflow", all |-> FALSE, count |-> 0,
          subject |-> name \o <<"#">> \o run]
  ELSE [form |-> "Delete workflow", all |-> FALSE, count |-> 0, subject |-> name]

\* const deleteButtonLabel = useMemo(() => { ... }, [...]);
deleteButtonLabel ==
  Label(workflow.name, workflow.run, allRuns, state.total, hasRelatedRuns,
        confirmRelatedDeletion, relatedCount(state.relatedIds))

\* ButtonDisabled without the disabled attribute
ButtonNeverDisabled == FALSE

\* <Button negative disabled={hasRelatedRuns && !allRuns && !confirmRelatedDeletion}>
ButtonDisabled == hasRelatedRuns /\ ~allRuns /\ ~confirmRelatedDeletion

\* deleteWorkflow(id, options), dispatched and not yet settled
Command(id, options) == [id |-> id, options |-> options, status |-> "pending"]

\* { allRuns: true }
AllRunsOptions == [allRuns |-> TRUE]

\* { allRuns: false, deleteWorkspace: true }
WorkspaceOptions == [allRuns |-> FALSE, deleteWorkspace |-> TRUE]

\* { allRuns: false, deleteWorkspace: false }
SiblingOptions == [allRuns |-> FALSE, deleteWorkspace |-> FALSE]

\* onDelete with the restart-chain branch tested before the all-runs branch
onDeleteChainFirst(id, all, has, confirm, relatedRunIds) ==
  LET base == [id |-> id, allRuns |-> all, hasRelatedRuns |-> has,
               confirmRelatedDeletion |-> confirm,
               relatedRunIds |-> relatedRunIds,
               cmds |-> <<>>, pc |-> "returned", closed |-> FALSE, cur |-> TRUE]
  IN  IF id = 0 THEN base
      ELSE IF has
        THEN IF ~confirm THEN base
             ELSE [base EXCEPT !.cmds = <<Command(id, WorkspaceOptions)>>,
                               !.pc = "awaitPrimary"]
      ELSE IF all
        THEN [base EXCEPT !.cmds = <<Command(id, AllRunsOptions)>>,
                          !.pc = "awaitAllRuns"]
      ELSE [base EXCEPT !.cmds = <<Command(id, WorkspaceOptions)>>,
                        !.pc = "awaitSingle"]

\* onDelete without "if (!id) return;"
onDeleteNoIdCheck(id, all, has, confirm, relatedRunIds) ==
  LET base == [id |-> id, allRuns |-> all, hasRelatedRuns |-> has,
               confirmRelatedDeletion |-> confirm,
               relatedRunIds |-> relatedRunIds,
               cmds |-> <<>>, pc |-> "returned", closed |-> FALSE, cur |-> TRUE]
  IN  IF all
        THEN [base EXCEPT !.cmds = <<Command(id, AllRunsOptions)>>,
                          !.pc = "awaitAllRuns"]
      ELSE IF has
        THEN IF ~confirm THEN base
             ELSE [base EXCEPT !.cmds = <<Command(id, WorkspaceOptions)>>,
                               !.pc = "awaitPrimary"]
      ELSE [base EXCEPT !.cmds = <<Command(id, WorkspaceOptions)>>,
                        !.pc = "awaitSingle"]

\* one call of onDelete up to its first await: the values its closure holds,
\* the commands it has dispatched (cmds), where it stands (pc) and whether it
\* has called onCloseModal (closed); cur: called in the interaction now open
onDelete(id, all, has, confirm, relatedRunIds) ==
  LET base == [id |-> id, allRuns |-> all, hasRelatedRuns |-> has,
               confirmRelatedDeletion |-> confirm,
               relatedRunIds |-> relatedRunIds,
               cmds |-> <<>>, pc |-> "returned", closed |-> FALSE, cur |-> TRUE]
  IN  IF id = 0 THEN base
      ELSE IF all
        THEN [base EXCEPT !.cmds = <<Command(id, AllRunsOptions)>>,
                          !.pc = "awaitAllRuns"]
      ELSE IF has
        THEN IF ~confirm THEN base
             ELSE [base EXCEPT !.cmds = <<Command(id, WorkspaceOptions)>>,
                               !.pc = "awaitPrimary"]
      ELSE [base EXCEPT !.cmds = <<Command(id, WorkspaceOptions)>>,
                        !.pc = "awaitSingle"]

RECURSIVE SiblingCommandsUnfiltered(_, _)
\* SiblingCommands without .filter((otherId) => otherId !== id)
SiblingCommandsUnfiltered(relatedRunIds, id) ==
  IF relatedRunIds = <<>> THEN <<>>
  ELSE <<Command(Head(relatedRunIds), SiblingOptions)>>
       \o SiblingCommandsUnfiltered(Tail(relatedRunIds), id)

RECURSIVE SiblingCommands(_, _)
\* relatedRunIds.filter((otherId) => otherId !== id).map((otherId) =>
\*   dispatch(deleteWorkflow(otherId, {allRuns: false, deleteWorkspace: false})))
SiblingCommands(relatedRunIds, id) ==
  IF relatedRunIds = <<>> THEN <<>>
  ELSE (IF Head(relatedRunIds) # id
        THEN <<Command(Head(relatedRunIds), SiblingOptions)>> ELSE <<>>)
       \o SiblingCommands(Tail(relatedRunIds), id)

\* AllSiblingsOk with Promise.any in the place of Promise.all
AnySiblingOk(cmds) == \E j \in 2..Len(cmds) : cmds[j].status = "ok"

\* Promise.all(...) has resolved: every sibling command succeeded
AllSiblingsOk(cmds) == \A j \in 2..Len(cmds) : cmds[j].status = "ok"

\* onDelete resumed by the success of its command j; the result's closed
\* field says whether onCloseModal() is called in this step
Resume(inv, j) ==
  LET done == [inv EXCEPT !.cmds[j].status = "ok"]
  IN  IF inv.pc \in {"awaitAllRuns", "awaitSingle"}
        THEN [done EXCEPT !.pc = "closed", !.closed = TRUE]
      ELSE IF inv.pc = "awaitPrimary"
        THEN LET sent == [done EXCEPT !.cmds =
                            @ \o SiblingCommands(inv.relatedRunIds, inv.id)]
             IN  IF Len(sent.cmds) = 1
                 THEN [sent EXCEPT !.pc = "closed", !.closed = TRUE]
                 ELSE [sent EXCEPT !.pc = "awaitSiblings"]
      ELSE IF inv.pc = "awaitSiblings" /\ AllSiblingsOk(done.cmds)
        THEN [done EXCEPT !.pc = "closed", !.closed = TRUE]
      ELSE done

\* Reject with the await wrapped in a try/catch that ignores the error
RejectSwallowed(inv, j) == [Resume(inv, j) EXCEPT !.cmds[j].status = "failed"]

\* onDelete resumed by the failure of its command j: the await throws (the
\* first rejection rejects Promise.all) and nothing after it runs
Reject(inv, j) ==
  LET done == [inv EXCEPT !.cmds[j].status = "failed"]
  IN  IF inv.pc \in {"awaitAllRuns", "awaitSingle", "awaitPrimary", "awaitSiblings"}
      THEN [done EXCEPT !.pc = "rejected"]
      ELSE done

\* ResetFires with the dependencies [open] in the place of [id, open]
ResetFiresOpenOnly(o2, w2) == o2 # open

\* useEffect(() => { setAllRuns(false); setConfirmRelatedDeletion(false); }, [id, open])
ResetFires(o2, w2) == <<w2.id, o2>> # <<workflow.id, open>>

\* the dependencies [open, name, run] of the effect of useWorkflowRuns changed
TrackerFires(o2, w2) ==
  <<o2, w2.name, w2.run>> # <<open, workflow.name, workflow.run>>

\* a new interaction begins (the effect on [id, open] runs): the calls of
\* onDelete made so far are calls of an earlier interaction
Past(calls) == [k \in DOMAIN calls |-> [calls[k] EXCEPT !.cur = FALSE]]

\* the store now holds (o2, w2): the component renders and its effects run;
\* calls is the value of invs the step leaves behind
Render(o2, w2, calls) ==
  /\ open' = o2
  /\ workflow' = w2
  /\ IF TrackerFires(o2, w2)
     THEN TrackerEffect(o2, w2)
     ELSE UNCHANGED <<state, fetches, cancelled, latest, issued>>
  /\ stale' = stale
  /\ resp' = resp
  /\ UNCHANGED resolver
  /\ IF ResetFires(o2, w2)
     THEN /\ allRuns' = FALSE
          /\ confirmRelatedDeletion' = FALSE
          /\ invs' = Past(calls)
     ELSE /\ UNCHANGED choices
          /\ invs' = calls

(* ------------------------------ actions -------------------------------- *)
\* no response is under inspection
NoResponse == [items |-> <<>>, total |-> NullTotal]

Init ==
  /\ open = FALSE
  /\ workflow = NoWorkflow
  /\ state = ResetState
  /\ fetches = {}
  /\ cancelled = {}
  /\ latest = 0
  /\ issued = 0
  /\ allRuns = FALSE
  /\ confirmRelatedDeletion = FALSE
  /\ invs = <<>>
  /\ stale = FALSE
  /\ resp = NoResponse
  /\ qualifiedName = <<>>
  /\ resolved = {}

\* the store opens the dialog for w (or retargets the open dialog to w); with
\* w = NoWorkflow the store says "open" while it holds no item
OpenModal(w) ==
  /\ <<TRUE, w>> # <<open, workflow>>
  /\ Render(TRUE, w, invs)

\* onCloseModal from the Cancel button or the close icon:
\* dispatch(closeDeleteWorkflowModal()) makes the selector "open" false
onCloseModal ==
  /\ Visible
  /\ Render(FALSE, workflow, invs)

\* the promise of fetch f resolves with resp.data = {items, total}
Arrive(f, items, total) ==
  /\ f \in fetches
  /\ state' = OnResponse(f, items, total)
  /\ fetches' = fetches \ {f}
  /\ cancelled' = cancelled \ {f.fid}
  /\ stale' = (f.fid # latest)
  /\ UNCHANGED <<store, latest, issued, choices, invs, resp, resolver>>

\* the response of fetch f arrives: success with some items and some total
FetchSucceeds(f) ==
  \E items \in Responses(f.name), total \in 0..MaxTotal : Arrive(f, items, total)

\* the response of fetch f arrives: failure
FetchFails(f) ==
  /\ f \in fetches
  /\ state' = OnError(f)
  /\ fetches' = fetches \ {f}
  /\ cancelled' = cancelled \ {f.fid}
  /\ stale' = (f.fid # latest)
  /\ UNCHANGED <<store, latest, issued, choices, invs, resp, resolver>>

\* onChange of the "Also delete related runs" checkbox
ToggleConfirm ==
  /\ Visible
  /\ hasRelatedRuns
  /\ ~allRuns
  /\ confirmRelatedDeletion' = ~confirmRelatedDeletion
  /\ UNCHANGED <<store, tracker, allRuns, invs, resp, resolver>>

\* onToggleAllRuns with setConfirmRelatedDeletion(checked) in the place of
\* "if (checked) setConfirmRelatedDeletion(true)"
onToggleAllRunsSetsBoth ==
  /\ Visible
  /\ showAllRunsCheckbox
  /\ allRuns' = ~allRuns
  /\ confirmRelatedDeletion' = ~allRuns
  /\ UNCHANGED <<store, tracker, invs, resp, resolver>>

\* onToggleAllRuns: onChange of the "Delete all the runs" checkbox
onToggleAllRuns ==
  /\ Visible
  /\ showAllRunsCheckbox
  /\ LET checked == ~allRuns
     IN  /\ allRuns' = checked
         /\ confirmRelatedDeletion' =
              IF checked THEN TRUE ELSE confirmRelatedDeletion
  /\ UNCHANGED <<store, tracker, invs, resp, resolver>>

\* onClick of the delete button: onDelete runs up to its first await
ClickDelete ==
  /\ Visible
  /\ ~ButtonDisabled
  /\ Len(invs) < MaxClicks
  /\ invs' = Append(invs, onDelete(workflow.id, allRuns, hasRelatedRuns,
                                   confirmRelatedDeletion, state.relatedIds))
  /\ UNCHANGED <<store, tracker, choices, resp, resolver>>

\* command j of call k succeeds and onDelete resumes
CommandSucceeds(k, j) ==
  /\ k \in DOMAIN invs
  /\ j \in DOMAIN invs[k].cmds
  /\ invs[k].cmds[j].status = "pending"
  /\ LET inv == Resume(invs[k], j)
         calls == [invs EXCEPT ![k] = inv]
     IN  IF inv.closed /\ ~invs[k].closed
         THEN Render(FALSE, workflow, calls)
         ELSE /\ invs' = calls
              /\ UNCHANGED <<store, tracker, choices, resp, resolver>>

\* command j of call k fails and onDelete is abandoned
CommandFails(k, j) ==
  /\ k \in DOMAIN invs
  /\ j \in DOMAIN invs[k].cmds
  /\ invs[k].cmds[j].status = "pending"
  /\ invs' = [invs EXCEPT ![k] = Reject(invs[k], j)]
  /\ UNCHANGED <<store, tracker, choices, resp, resolver>>

Next ==
  \/ \E w \in Workflows \cup {NoWorkflow} : OpenModal(w)
  \/ onCloseModal
  \/ \E f \in fetches : FetchSucceeds(f)
  \/ \E f \in fetches : FetchFails(f)
  \/ ToggleConfirm
  \/ onToggleAllRuns
  \/ ClickDelete
  \/ \E k \in 1..MaxClicks, j \in 1..(MaxItems + 1) : CommandSucceeds(k, j)
  \/ \E k \in 1..MaxClicks, j \in 1..(MaxItems + 1) : CommandFails(k, j)

Spec == Init /\ [][Next]_vars

\* the tracker alone: the store opens, retargets and closes the dialog (the
\* store may also say "open" while it holds no item), and the responses
\* arrive; no delete is activated
TrackerNext ==
  \/ \E w \in Workflows \cup {NoWorkflow} : OpenModal(w)
  \/ onCloseModal
  \/ \E f \in fetches : FetchSucceeds(f)
  \/ \E f \in fetches : FetchFails(f)

TrackerSpec == Init /\ [][TrackerNext]_vars

\* the .then handler as a function of its inputs: the dialog is open for some
\* item, its fetch is in flight, earlier results may be in the state, and the
\* response resp arrives
ThenInit ==
  /\ open = TRUE
  /\ workflow \in Workflows
  /\ state \in {SetLoading(ResetState),
                SetLoading([total |-> 1, relatedIds |-> <<4>>, loading |-> FALSE])}
  /\ fetches = {[fid |-> 1, name |-> workflow.name,
                 selectedGroup |->
                   getWorkspaceGroup(selectedFullName(workflow.name, workflow.run))]}
  /\ cancelled = {}
  /\ latest = 1
  /\ issued = 1
  /\ stale = FALSE
  /\ allRuns = FALSE
  /\ confirmRelatedDeletion = FALSE
  /\ invs = <<>>
  /\ resp \in [items : Responses(workflow.name), total : 0..MaxTotal]
  /\ qualifiedName = <<>>
  /\ resolved = {}

ThenNext == \E f \in fetches : Arrive(f, resp.items, resp.total)

ThenSpec == ThenInit /\ [][ThenNext]_vars

\* the characters of the names handed to getWorkspaceGroup
Chars == {"w", "1", "2", Dot}

\* the names of at most MaxLen characters, the empty name (null) included
Names == UNION {[1..n -> Chars] : n \in 0..MaxLen}

\* the run numbers and restart indices appended to a name
RunNumbers == {<<"1">>, <<"2">>, <<"1", "2">>}

\* getWorkspaceGroup as a function of its input: it is called on some name,
\* on that name with one more numeric component, and on the keys it returned
ResolverInit ==
  /\ open = FALSE
  /\ workflow = NoWorkflow
  /\ state = ResetState
  /\ fetches = {}
  /\ cancelled = {}
  /\ latest = 0
  /\ issued = 0
  /\ allRuns = FALSE
  /\ confirmRelatedDeletion = FALSE
  /\ invs = <<>>
  /\ stale = FALSE
  /\ resp = NoResponse
  /\ qualifiedName \in Names
  /\ resolved = {}

\* a call getWorkspaceGroup(n)
Resolve(n) ==
  /\ \A c \in resolved : c.fullName # n
  /\ resolved' = resolved \cup {[fullName |-> n, group |-> getWorkspaceGroup(n)]}
  /\ UNCHANGED <<store, tracker, choices, invs, resp, qualifiedName>>

ResolverNext ==
  \/ Resolve(qualifiedName)
  \/ \E k \in RunNumbers : Resolve(qualifiedName \o <<Dot>> \o k)
  \/ \E c \in resolved : Resolve(c.group)

ResolverSpec == ResolverInit /\ [][ResolverNext]_vars

TypeOK ==
  /\ open \in BOOLEAN
  /\ workflow \in Workflows \cup {NoWorkflow}
  /\ state.total \in {NullTotal} \cup 0..MaxTotal
  /\ state.loading \in BOOLEAN
  /\ cancelled \subseteq InFlight
  /\ latest \in {0, issued}
  /\ issued \in 0..MaxFetches
  /\ Len(invs) <= MaxClicks
  /\ stale \in BOOLEAN

C9_ResetOnChange ==
  [][<<open, workflow.name, workflow.run>>' # <<open, workflow.name, workflow.run>>
       => (state'.total = NullTotal /\ state'.relatedIds = <<>>)]_vars

\* the workspace-group key of the item the dialog is open for
SelectedKey == getWorkspaceGroup(selectedFullName(workflow.name, workflow.run))

RECURSIVE IdsInGroup(_, _, _)
\* the identifiers of the items whose name resolves to key, in the order of
\* items; an item without identifier counts only when missing is TRUE
IdsInGroup(items, key, missing) ==
  IF items = <<>> THEN <<>>
  ELSE (IF /\ getWorkspaceGroup(Head(items).name) = key
           /\ (missing \/ Head(items).id # 0)
        THEN <<Head(items).id>> ELSE <<>>)
       \o IdsInGroup(Tail(items), key, missing)

\* the handler has run on resp, for the fetch of the most recent activation
Handled == fetches = {} /\ ~stale /\ resp # NoResponse

\* C10 (as claimed): after a successful, non-stale fetch, relatedIds holds the
\* identifier of every returned item of the selected run's workspace group, in
\* the order of the response (empty when the selected key is undefined), total
\* is the response's total and loading is false.
C10_EveryItem ==
  Handled =>
    state = [total |-> resp.total,
             relatedIds |-> IF SelectedKey = <<>> THEN <<>>
                            ELSE IdsInGroup(resp.items, SelectedKey, TRUE),
             loading |-> FALSE]

\* C10 (amended): as C10, for the returned items that carry an identifier.
C10_EveryIdentifiedItem ==
  Handled =>
    state = [total |-> resp.total,
             relatedIds |-> IF SelectedKey = <<>> THEN <<>>
                            ELSE IdsInGroup(resp.items, SelectedKey, FALSE),
             loading |-> FALSE]

\* the response held three runs, one of another group and one without
\* identifier in the selected group; the state holds the one that is left
C10_Witness ==
  /\ Handled
  /\ Len(resp.items) = 3
  /\ \E k \in 1..3 : resp.items[k].id = 0
  /\ \E k \in 1..3 : resp.items[k].id = 4
  /\ Len(state.relatedIds) = 1
  /\ state.total = 2

\* the calls of onDelete made with a target, and those of the three paths
Calls == {k \in DOMAIN invs : invs[k].id # 0}

AllRunsCalls == {k \in Calls : invs[k].allRuns}

ChainCalls ==
  {k \in Calls : /\ ~invs[k].allRuns
                 /\ invs[k].hasRelatedRuns
                 /\ invs[k].confirmRelatedDeletion}

SingleCalls == {k \in Calls : ~invs[k].allRuns /\ ~invs[k].hasRelatedRuns}

\* the commands carrying deleteWorkspace: true issued in the interaction now open
WorkspaceDeletes ==
  {<<k, j>> \in (DOMAIN invs) \X (1..(MaxItems + 1)) :
     /\ invs[k].cur
     /\ j \in DOMAIN invs[k].cmds
     /\ invs[k].cmds[j].options = WorkspaceOptions}

\* C2 (as claimed): within one open interaction for a target, at most one
\* delete-command carrying deleteWorkspace: true is issued.
C2_NoDoubleWorkspaceDelete == Cardinality(WorkspaceDeletes) <= 1

\* call k of the interaction now open issues a command in this step
Issues(k) ==
  /\ k \in DOMAIN invs'
  /\ invs'[k].cur
  /\ Len(invs'[k].cmds) > (IF k \in DOMAIN invs THEN Len(invs[k].cmds) ELSE 0)

\* C3 (as claimed): no delete-command is issued in a state where
\* hasRelatedRuns is true and allRuns and confirmRelatedDeletion are false
\* (stated for the commands of the interaction that is open in that state).
C3_NeverIssuedUnconfirmed ==
  [][(\E k \in 1..MaxClicks : Issues(k))
       => ~(hasRelatedRuns /\ ~allRuns /\ ~confirmRelatedDeletion)]_vars

\* C3 (amended): the delete action is activated only in a state where
\* !hasRelatedRuns or allRuns or confirmRelatedDeletion, and it can be
\* activated in every such state of the dialog; every command is issued by a
\* call of onDelete activated in such a state; and onDelete issues nothing when
\* called with hasRelatedRuns true, allRuns false, confirmRelatedDeletion false.
C3_GateAtActivation ==
  /\ \A k \in DOMAIN invs :
       \/ ~invs[k].hasRelatedRuns
       \/ invs[k].allRuns
       \/ invs[k].confirmRelatedDeletion
  /\ (Visible /\ Len(invs) < MaxClicks)
       => ((ENABLED ClickDelete)
             <=> (~hasRelatedRuns \/ allRuns \/ confirmRelatedDeletion))
  /\ onDelete(workflow.id, FALSE, TRUE, FALSE, state.relatedIds).cmds = <<>>

\* a call has issued its sibling commands after the confirmation it was
\* activated with was withdrawn: the delete action is now disabled
C3_Witness ==
  /\ Visible
  /\ hasRelatedRuns /\ ~allRuns /\ ~confirmRelatedDeletion
  /\ \E k \in ChainCalls : invs[k].cur /\ invs[k].pc = "awaitSiblings"

\* the identifiers of relatedRunIds other than id
Others(inv) ==
  {inv.relatedRunIds[n] : n \in DOMAIN inv.relatedRunIds} \ {inv.id}

\* C4: a restart-chain call issues first one command for id with
\* {allRuns: false, deleteWorkspace: true}; every later command is a command
\* with {allRuns: false, deleteWorkspace: false}, one for each identifier of
\* relatedIds other than id and none for id; these are issued once the first
\* command has succeeded, and not before.
C4_PrimaryThenSiblings ==
  \A k \in ChainCalls :
    LET c == invs[k].cmds
    IN  /\ Len(c) >= 1
        /\ c[1].id = invs[k].id
        /\ c[1].options = WorkspaceOptions
        /\ \A j \in 2..Len(c) :
             /\ c[j].options = SiblingOptions
             /\ c[j].id \in Others(invs[k])
             /\ \A i \in 2..Len(c) : i # j => c[i].id # c[j].id
        /\ IF c[1].status = "ok"
           THEN {c[j].id : j \in 2..Len(c)} = Others(invs[k])
           ELSE Len(c) = 1

\* a restart-chain call for a target that is in relatedIds has issued its
\* primary command and then its two sibling commands
C4_Witness ==
  \E k \in ChainCalls :
    /\ Len(invs[k].relatedRunIds) = 3
    /\ \E n \in 1..3 : invs[k].relatedRunIds[n] = invs[k].id
    /\ Len(invs[k].cmds) = 3

\* C5: when the first (workspace-owning) command of a call fails, the call
\* issues no further command, neither a sibling nor a retry, does not close
\* the interaction, and ends rejected.
C5_PrimaryFailureStops ==
  \A k \in Calls :
    (invs[k].cmds # <<>> /\ invs[k].cmds[1].status = "failed")
      => /\ Len(invs[k].cmds) = 1
         /\ ~invs[k].closed
         /\ invs[k].pc = "rejected"

\* the primary command of a restart-chain call has failed
C5_Witness ==
  \E k \in ChainCalls :
    /\ invs[k].cmds[1].status = "failed"
    /\ Others(invs[k]) # {}
    /\ open

\* C6: a call of onDelete that has closed the interaction has issued at least
\* one command, and every command it has issued has succeeded: none is
\* pending, none has failed.
C6_CloseAfterCommands ==
  \A k \in DOMAIN invs :
    invs[k].closed
      => /\ invs[k].cmds # <<>>
         /\ \A j \in DOMAIN invs[k].cmds : invs[k].cmds[j].status = "ok"
         /\ (invs[k].hasRelatedRuns /\ ~invs[k].allRuns)
              => Len(invs[k].cmds) = 1 + Cardinality(Others(invs[k]))

\* a restart-chain call has closed the interaction after its three commands
C6_Witness ==
  \E k \in ChainCalls : invs[k].closed /\ Len(invs[k].cmds) = 3

\* C7: a call with allRuns true and a target id issues exactly one command,
\* for id with {allRuns: true}, whatever hasRelatedRuns, relatedIds and
\* confirmRelatedDeletion are, and closes the interaction once it succeeded.
C7_AllRunsOneCommand ==
  \A k \in AllRunsCalls :
    /\ Len(invs[k].cmds) = 1
    /\ invs[k].cmds[1].id = invs[k].id
    /\ invs[k].cmds[1].options = AllRunsOptions
    /\ invs[k].closed <=> invs[k].cmds[1].status = "ok"

\* an all-runs call made for a run with related runs has closed the interaction
C7_Witness ==
  \E k \in AllRunsCalls :
    /\ invs[k].hasRelatedRuns
    /\ Len(invs[k].relatedRunIds) = 3
    /\ invs[k].closed

\* C8: a call with allRuns false and hasRelatedRuns false issues exactly one
\* command, for id with {allRuns: false, deleteWorkspace: true}, and closes
\* the interaction once it succeeded; a call without target id issues no
\* command and does not close.
C8_SingleOneCommand ==
  /\ \A k \in SingleCalls :
       /\ Len(invs[k].cmds) = 1
       /\ invs[k].cmds[1].id = invs[k].id
       /\ invs[k].cmds[1].options = WorkspaceOptions
       /\ invs[k].closed <=> invs[k].cmds[1].status = "ok"
  /\ \A k \in DOMAIN invs :
       invs[k].id = 0
         => invs[k].cmds = <<>> /\ ~invs[k].closed /\ invs[k].pc = "returned"

\* a single call has closed the interaction, and a call was made without id
C8_Witness ==
  /\ \E k \in SingleCalls : invs[k].closed
  /\ \E k \in DOMAIN invs : invs[k].id = 0

\* C11 (as claimed): when the fetch of the most recent activation fails, the
\* state becomes {total: null, relatedIds: [], loading: false}; after it
\* hasRelatedRuns is false, the delete button is enabled, and activating it
\* for a target with an id is a single-run delete: one command
\* {allRuns: false, deleteWorkspace: true} for the target.
C11_FailureDegrades ==
  [][\A f \in fetches :
       (f.fid = latest /\ FetchFails(f))
         => /\ state' = ResetState
            /\ ~hasRelatedRuns'
            /\ (Visible' /\ workflow'.id # 0)
                 => /\ ~ButtonDisabled'
                    /\ onDelete(workflow'.id, allRuns', hasRelatedRuns',
                                confirmRelatedDeletion', state'.relatedIds).cmds
                         = <<Command(workflow'.id, WorkspaceOptions)>>]_vars

\* C12: a run of the effect with open false or name absent leaves the state
\* {total: null, relatedIds: [], loading: false} and issues no query; a run
\* with open true and a name issues exactly one query, for that name; and no
\* query is issued in any other step.
C12_QueryOnlyWhenActive ==
  [][LET fires  == <<open, workflow.name, workflow.run>>'
                     # <<open, workflow.name, workflow.run>>
         active == open' /\ workflow'.name # <<>>
         new    == fetches' \ fetches
     IN  /\ (fires /\ ~active)
              => (state' = ResetState /\ issued' = issued /\ fetches' = fetches)
         /\ (fires /\ active)
              => /\ issued' = issued + 1
                 /\ fetches \subseteq fetches'
                 /\ Cardinality(new) = 1
                 /\ \A f \in new : f.name = workflow'.name
         /\ (issued' # issued \/ new # {}) => (fires /\ active)]_vars

\* the store says "open" without an item while the fetch of an earlier
\* activation is still in flight: the state is reset, no second query is made
C12_Witness ==
  /\ open
  /\ workflow = NoWorkflow
  /\ state = ResetState
  /\ issued = 1
  /\ fetches # {}
  /\ latest = 0

\* C13: ticking "Delete all the runs" sets allRuns and sets
\* confirmRelatedDeletion; unticking it clears allRuns and leaves
\* confirmRelatedDeletion as it is; either way total, relatedIds and loading
\* stay as they are, no query is issued and no delete-command is issued.
C13_ToggleFrame ==
  [][(allRuns' # allRuns /\ store' = store)
       => /\ allRuns' => confirmRelatedDeletion'
          /\ ~allRuns' => (confirmRelatedDeletion' = confirmRelatedDeletion)
          /\ state' = state
          /\ fetches' = fetches
          /\ issued' = issued
          /\ invs' = invs]_vars

\* in the first interaction, for a run without related runs, "Delete all the
\* runs" was ticked and unticked: the confirmation it forced is still set
C13_Witness ==
  /\ Visible
  /\ issued = 1
  /\ ~hasRelatedRuns
  /\ ~allRuns
  /\ confirmRelatedDeletion

\* C14: whenever the id of the target changes, and whenever the dialog is
\* opened, reopened or closed, allRuns and confirmRelatedDeletion are both
\* false afterwards.
C14_ResetOnTargetOrOpen ==
  [][(workflow'.id # workflow.id \/ open' # open)
       => (~allRuns' /\ ~confirmRelatedDeletion')]_vars

\* the dialog now shows another target than the one an all-runs delete was
\* activated for, the all-runs checkbox is on offer, and nothing is ticked
C14_Witness ==
  /\ Visible
  /\ showAllRunsCheckbox
  /\ ~allRuns
  /\ ~confirmRelatedDeletion
  /\ \E k \in AllRunsCalls :
       /\ ~invs[k].cur
       /\ invs[k].confirmRelatedDeletion
       /\ invs[k].id # workflow.id

\* s is one or more all-digit components separated by dots
DigitTail(s) ==
  /\ s # <<>>
  /\ \A k \in 1..Len(s) : s[k] \in Digits \cup {Dot}
  /\ s[1] # Dot
  /\ s[Len(s)] # Dot
  /\ \A k \in 1..(Len(s) - 1) : ~(s[k] = Dot /\ s[k + 1] = Dot)

\* the dots of n after which only all-digit components follow
TailDots(n) ==
  {p \in 1..Len(n) : n[p] = Dot /\ DigitTail(SubSeq(n, p + 1, Len(n)))}

\* base + "." + firstNumeric, read off the characters of n: base is what
\* stands before the first dot that only all-digit components follow,
\* firstNumeric the component right after that dot; undefined (the empty
\* sequence) when n is empty, when no all-digit component ends n, and when
\* nothing is left as base
ExpectedKey(n) ==
  IF n = <<>> \/ DigitTail(n) \/ TailDots(n) = {} THEN <<>>
  ELSE LET p    == CHOOSE q \in TailDots(n) : \A r \in TailDots(n) : q <= r
           ends == {q \in (p + 1)..(Len(n) + 1) : q = Len(n) + 1 \/ n[q] = Dot}
           e    == CHOOSE q \in ends : \A r \in ends : q <= r
       IN  IF p = 1 THEN <<>> ELSE SubSeq(n, 1, e - 1)

\* C15: every call of getWorkspaceGroup returns base + "." + firstNumeric,
\* where base is the name without its trailing all-digit components and
\* firstNumeric the leftmost of these; it returns undefined for the empty
\* name, for a name no all-digit component ends, and when base is empty.
\* "w.1.2" gives "w.1"; "w" and "1.2" give undefined.
C15_ResolverContract ==
  \A c \in resolved :
    /\ c.group = ExpectedKey(c.fullName)
    /\ c.fullName = W \o <<Dot>> \o R12 => c.group = W \o <<Dot>> \o R1
    /\ c.fullName \in {<<>>, W, R12} => c.group = <<>>

\* getWorkspaceGroup was called on "w.1.2" and on the key "w.1" it returned
C15_Witness ==
  /\ qualifiedName = W \o <<Dot>> \o R12
  /\ [fullName |-> W \o <<Dot>> \o R12, group |-> W \o <<Dot>> \o R1] \in resolved
  /\ \E c \in resolved : c.fullName = W \o <<Dot>> \o R1

\* C16: for every name N that has a key, getWorkspaceGroup of that key is
\* the key again, and getWorkspaceGroup of N + "." + k is the key of N for
\* every all-digit k.
C16_GroupingStable ==
  \A c \in resolved : \A d \in resolved :
    c.group # <<>>
      => /\ d.fullName = c.group => d.group = c.group
         /\ \A k \in RunNumbers :
              d.fullName = c.fullName \o <<Dot>> \o k => d.group = c.group

\* a name with a key that differs from it ("w.12.1", key "w.12"), its key and
\* the name with one more numeric component have all been resolved
C16_Witness ==
  \E c \in resolved :
    /\ c.fullName = qualifiedName
    /\ c.group # <<>>
    /\ c.group # c.fullName
    /\ \E d \in resolved : d.fullName = c.group
    /\ \A k \in RunNumbers :
         \E d \in resolved : d.fullName = c.fullName \o <<Dot>> \o k

\* C17 (as claimed): no delete-command is issued in a state where loading is
\* true (stated for the commands of the interaction that is open).
C17_NoDeleteWhileLoading ==
  [][(\E k \in 1..MaxClicks : Issues(k)) => ~state.loading]_vars

\* the item of the store that carries the identifier id
TargetOf(id) == CHOOSE w \in Workflows : w.id = id

\* C18 (as claimed): every sibling command of a restart-chain call goes to a
\* run whose workspace-group key is the key of the call's target.
C18_SiblingsShareGroup ==
  \A k \in ChainCalls :
    \A j \in 2..Len(invs[k].cmds) :
      getWorkspaceGroup(RunOf(invs[k].cmds[j].id).name)
        = getWorkspaceGroup(selectedFullName(TargetOf(invs[k].id).name,
                                             TargetOf(invs[k].id).run))

\* C19 (as claimed): a restart-chain call was activated under the label
\* "Delete N runs in restart chain of ..."; when all its commands have
\* succeeded and it has closed the dialog, it has issued exactly N commands.
C19_LabelMatchesCommands ==
  \A k \in ChainCalls :
    LET w   == TargetOf(invs[k].id)
        lab == Label(w.name, w.run, invs[k].allRuns, NullTotal,
                     invs[k].hasRelatedRuns, invs[k].confirmRelatedDeletion,
                     relatedCount(invs[k].relatedRunIds))
    IN  invs[k].pc = "closed"
          => /\ lab.form = "Delete N runs in restart chain of"
             /\ ~lab.all
             /\ Len(invs[k].cmds) = lab.count

\* n is a name of non-empty dot-separated components
WellFormed(n) ==
  /\ n # <<>>
  /\ n[1] # Dot
  /\ n[Len(n)] # Dot
  /\ \A k \in 1..(Len(n) - 1) : ~(n[k] = Dot /\ n[k + 1] = Dot)

\* C20 (as claimed): for every workflow name and every two distinct run
\* numbers r1 and r2, getWorkspaceGroup(name + "." + r1) and
\* getWorkspaceGroup(name + "." + r2) are not one and the same key.
C20_DistinctRunsDistinctKeys ==
  WellFormed(qualifiedName)
    => \A c \in resolved : \A d \in resolved :
         \A r1 \in RunNumbers : \A r2 \in RunNumbers :
           (/\ r1 # r2
            /\ c.fullName = qualifiedName \o <<Dot>> \o r1
            /\ d.fullName = qualifiedName \o <<Dot>> \o r2
            /\ c.group # <<>>)
             => c.group # d.group

====
